---------------------------- MODULE Spec2Model ----------------------------
(***************************************************************************)
(* GPTAPIKeyManager / GPTChatManager of app.py: an ordered pool of API     *)
(* keys, a cursor into it, a set of failed keys, and send_message, which   *)
(* retries a request over the keys that are left.                          *)
(*                                                                         *)
(* The Flask front end serves requests on threads that share one           *)
(* gpt_manager and the key manager takes no lock, so every read and every  *)
(* write of current_key_index and failed_keys is a step of its own:        *)
(* "self.current_key_index += 1" is a read followed by a write.            *)
(* Spec interleaves the sends of several threads; SpecSeq runs one caller  *)
(* that also calls the key manager's methods directly.                     *)
(***************************************************************************)
EXTENDS Integers, Sequences, FiniteSets, TLC

(* ------------------------------ bounds --------------------------------- *)
MaxKeys == 3
NProcs == 2
MaxSends == 2

Procs == 1..NProcs

(* ------------------------------ values --------------------------------- *)
\* Python's None: os.getenv of an unset variable, get_current_key without a key.
None == "None"
\* Values an environment variable can hold: "" is a variable set to nothing.
Keys == {"", "A", "B", "C"}

\* Outcome of requests.post: a status code, or RequestException raised (no status).
RequestException == 0
Responses == {200, 429, 401, 500, RequestException}
NoResponse == -1

VARIABLES
    api_keys,           \* GPTAPIKeyManager.api_keys
    current_key_index,  \* GPTAPIKeyManager.current_key_index (0-based, as in the code)
    failed_keys,        \* GPTAPIKeyManager.failed_keys
    pc,                 \* per thread: the statement it is at
    caller,             \* per thread: "send" inside send_message, "direct" otherwise
    max_retries,        \* send_message local
    attempt,            \* send_message local: iterations of the for loop started
    current_key,        \* send_message local
    key,                \* mark_key_failed parameter
    tmp,                \* value of current_key_index loaded by the running statement
    elem,               \* value of api_keys[...] loaded by the running statement
    ret,                \* value returned by the last get_current_key
    response,           \* outcome of the last requests.post
    outcome,            \* how the thread's send_message (or direct call) ended
    calls,              \* history: keys of the HTTP calls of the current send
    oks,                \* history: for each answered call, whether it answered 200
    failed0,            \* history: failed_keys when the send read its budget
    marked,             \* history: keys mark_key_failed was called with
    lastop,             \* history: the direct call that returned last
    nsends,             \* sends started so far
    lastok              \* history: key of the last send that returned a payload,
                        \*          None once a key was marked failed after it

shared == <<api_keys, current_key_index, failed_keys>>
locals == <<max_retries, attempt, current_key, key, tmp, elem, ret, response>>
hist   == <<calls, oks, failed0, marked, lastop, nsends, lastok>>
vars   == <<api_keys, current_key_index, failed_keys, pc, caller, max_retries,
           attempt, current_key, key, tmp, elem, ret, response, outcome,
           calls, oks, failed0, marked, lastop, nsends, lastok>>

(* ---------------------------- pure helpers ----------------------------- *)
Range(s) == {s[i] : i \in DOMAIN s}

SeqsUpTo(S, n) == UNION {[1..m -> S] : m \in 0..n}

RECURSIVE FilterNotNone(_)
\* [key for key in API_KEYS if key is not None]
FilterNotNone(s) ==
    IF s = <<>> THEN <<>>
    ELSE IF Head(s) # None THEN <<Head(s)>> \o FilterNotNone(Tail(s))
         ELSE FilterNotNone(Tail(s))

\* The list of os.getenv results the pool is built from.
Configs == SeqsUpTo(Keys \cup {None}, MaxKeys)

\* The code compares keys for equality and tests them for emptiness, nothing else:
\* pools are enumerated up to renaming of the non-empty keys (first "A", then "B", ...).
Canonical(s) ==
    \A i \in DOMAIN s :
        /\ s[i] = "B" => \E j \in 1..(i - 1) : s[j] = "A"
        /\ s[i] = "C" => \E j \in 1..(i - 1) : s[j] = "B"

\* Mutant: the usable values are counted, not the usable positions.
CountAvailable_ByValue(keys, failed) ==
    Cardinality({keys[i] : i \in DOMAIN keys} \ failed)

\* Mutant: the comprehension's test inverted (counts the failed keys).
CountAvailable_CountsFailed(keys, failed) ==
    Cardinality({i \in DOMAIN keys : keys[i] \in failed})

\* len([key for key in self.api_keys if key not in self.failed_keys])
CountAvailable(keys, failed) ==
    Cardinality({i \in DOMAIN keys : keys[i] \notin failed})

get_available_keys_count == CountAvailable(api_keys, failed_keys)

\* Python truthiness of an Optional[str]: None and "" are falsy.
Falsy(v) == v = None \/ v = ""

\* response.status_code == 200
IsSuccess(r) == r = 200

\* Mutant: the else branch does what its comment says ("Don't mark as failed for
\* other errors"): only 429, 401 and RequestException retire the key.
MarksFailed_NotOther(r) ==
    \/ r = 429
    \/ r = 401
    \/ r = RequestException

\* The branches of lines 84-101: which outcomes call mark_key_failed(current_key).
MarksFailed(r) ==
    \/ r = 429
    \/ r = 401
    \/ r \notin {200, 429, 401, RequestException}
    \/ r = RequestException

(* ------------------------------- Init ---------------------------------- *)
Init ==
    /\ \E cfg \in Configs : api_keys = FilterNotNone(cfg)
    /\ Canonical(api_keys)
    /\ current_key_index = 0
    /\ failed_keys = {}
    /\ pc = [p \in Procs |-> "idle"]
    /\ caller = [p \in Procs |-> "send"]
    /\ max_retries = [p \in Procs |-> 0]
    /\ attempt = [p \in Procs |-> 0]
    /\ current_key = [p \in Procs |-> None]
    /\ key = [p \in Procs |-> None]
    /\ tmp = [p \in Procs |-> 0]
    /\ elem = [p \in Procs |-> None]
    /\ ret = [p \in Procs |-> None]
    /\ response = [p \in Procs |-> NoResponse]
    /\ outcome = [p \in Procs |-> "none"]
    /\ calls = [p \in Procs |-> <<>>]
    /\ oks = [p \in Procs |-> <<>>]
    /\ failed0 = [p \in Procs |-> {}]
    /\ marked = {}
    /\ lastop = [p \in Procs |-> "none"]
    /\ nsends = 0
    /\ lastok = None

(* --------------------- control transfer helpers ------------------------ *)
\* An exception leaves the running call: send_message catches only
\* requests.exceptions.RequestException, and only around lines 75-96.
Raise(p, e) ==
    /\ pc' = [pc EXCEPT ![p] = "done"]
    /\ outcome' = [outcome EXCEPT ![p] = e]

\* "return v" of get_current_key.
GkReturn(p, v) ==
    IF caller[p] = "send"
    THEN /\ current_key' = [current_key EXCEPT ![p] = v]    \* line 68
         /\ pc' = [pc EXCEPT ![p] = "s_check"]
         /\ UNCHANGED <<ret, lastop, outcome>>
    ELSE /\ ret' = [ret EXCEPT ![p] = v]
         /\ pc' = [pc EXCEPT ![p] = "idle"]
         /\ lastop' = [lastop EXCEPT ![p] = "get"]
         /\ UNCHANGED <<current_key, outcome>>

\* End of mark_key_failed: "continue" in send_message, or back to the direct caller.
MkReturn(p) ==
    IF caller[p] = "send"
    THEN /\ pc' = [pc EXCEPT ![p] = "loop"]
         /\ UNCHANGED lastop
    ELSE /\ pc' = [pc EXCEPT ![p] = "idle"]
         /\ lastop' = [lastop EXCEPT ![p] = "mark"]

(* --------------------------- send_message ------------------------------ *)
\* line 65: max_retries = self.key_manager.get_available_keys_count()
Send(p) ==
    /\ pc[p] = "idle"
    /\ nsends < MaxSends
    /\ nsends' = nsends + 1
    /\ max_retries' = [max_retries EXCEPT ![p] = get_available_keys_count]
    /\ attempt' = [attempt EXCEPT ![p] = 0]
    /\ caller' = [caller EXCEPT ![p] = "send"]
    /\ calls' = [calls EXCEPT ![p] = <<>>]
    /\ oks' = [oks EXCEPT ![p] = <<>>]
    /\ failed0' = [failed0 EXCEPT ![p] = failed_keys]
    /\ lastop' = [lastop EXCEPT ![p] = "none"]
    /\ ret' = [ret EXCEPT ![p] = None]
    /\ key' = [key EXCEPT ![p] = None]
    /\ pc' = [pc EXCEPT ![p] = "loop"]
    /\ UNCHANGED <<shared, current_key, tmp, elem, response, outcome, marked, lastok>>

\* Mutant: the loop body runs once before the budget is looked at.
Loop_DoWhile(p) ==
    /\ pc[p] = "loop"
    /\ IF attempt[p] = 0 \/ attempt[p] < max_retries[p]
       THEN /\ attempt' = [attempt EXCEPT ![p] = @ + 1]
            /\ pc' = [pc EXCEPT ![p] = "gk_empty"]
            /\ UNCHANGED outcome
       ELSE /\ Raise(p, "AllExhausted")
            /\ UNCHANGED attempt
    /\ UNCHANGED <<shared, caller, max_retries, current_key, key, tmp, elem, ret,
                   response, hist>>

\* Mutant: the loop ignores the budget ("while True").
Loop_NoBudget(p) ==
    /\ pc[p] = "loop"
    /\ attempt' = [attempt EXCEPT ![p] = @ + 1]
    /\ pc' = [pc EXCEPT ![p] = "gk_empty"]
    /\ UNCHANGED <<shared, caller, max_retries, current_key, key, tmp, elem, ret,
                   response, outcome, hist>>

\* line 67: for attempt in range(max_retries); line 103 when the range is used up.
Loop(p) ==
    /\ pc[p] = "loop"
    /\ IF attempt[p] < max_retries[p]
       THEN /\ attempt' = [attempt EXCEPT ![p] = @ + 1]
            /\ pc' = [pc EXCEPT ![p] = "gk_empty"]
            /\ UNCHANGED outcome
       ELSE /\ Raise(p, "AllExhausted")
            /\ UNCHANGED attempt
    /\ UNCHANGED <<shared, caller, max_retries, current_key, key, tmp, elem, ret,
                   response, hist>>

\* lines 69-70: if not current_key: raise Exception("No available API keys")
SCheck(p) ==
    /\ pc[p] = "s_check"
    /\ IF Falsy(current_key[p])
       THEN Raise(p, "NoAvailable")
       ELSE /\ pc' = [pc EXCEPT ![p] = "post"]
            /\ UNCHANGED outcome
    /\ UNCHANGED <<shared, caller, locals, hist>>

\* lines 72-80: the request leaves with "Bearer {current_key}".
Post(p) ==
    /\ pc[p] = "post"
    /\ calls' = [calls EXCEPT ![p] = Append(@, current_key[p])]
    /\ pc' = [pc EXCEPT ![p] = "wait"]
    /\ UNCHANGED <<shared, caller, locals, outcome, oks, failed0, marked, lastop, nsends, lastok>>

\* lines 75-80, 98: requests.post returns a response or raises RequestException.
Respond(p) ==
    /\ pc[p] = "wait"
    /\ \E r \in Responses :
        /\ response' = [response EXCEPT ![p] = r]
        /\ oks' = [oks EXCEPT ![p] = Append(@, IsSuccess(r))]
    /\ pc' = [pc EXCEPT ![p] = "classify"]
    /\ UNCHANGED <<shared, caller, max_retries, attempt, current_key, key, tmp, elem,
                   ret, outcome, calls, failed0, marked, lastop, nsends, lastok>>

\* Mutant: the key of a call that answered 200 is retired like the others.
Classify_MarkOnSuccess(p) ==
    /\ pc[p] = "classify"
    /\ IF IsSuccess(response[p])
       THEN /\ Raise(p, "success")
            /\ failed_keys' = failed_keys \cup {current_key[p]}
            /\ UNCHANGED <<key, marked, response>>
       ELSE /\ response' = [response EXCEPT ![p] = NoResponse]
            /\ UNCHANGED <<outcome, failed_keys>>
            /\ IF MarksFailed(response[p])
               THEN /\ key' = [key EXCEPT ![p] = current_key[p]]
                    /\ marked' = marked \cup {current_key[p]}
                    /\ pc' = [pc EXCEPT ![p] = "mk_add"]
               ELSE /\ pc' = [pc EXCEPT ![p] = "loop"]
                    /\ UNCHANGED <<key, marked>>
    /\ UNCHANGED <<api_keys, current_key_index, caller, max_retries, attempt,
                   current_key, tmp, elem, ret, calls, oks, failed0, lastop, nsends,
                   lastok>>

\* lines 82-101: return response.json(), or mark_key_failed(current_key); continue
Classify(p) ==
    /\ pc[p] = "classify"
    /\ IF IsSuccess(response[p])
       THEN /\ Raise(p, "success")
            /\ UNCHANGED <<key, marked, response>>
       ELSE /\ response' = [response EXCEPT ![p] = NoResponse]
            /\ UNCHANGED outcome
            /\ IF MarksFailed(response[p])
               THEN /\ key' = [key EXCEPT ![p] = current_key[p]]
                    /\ marked' = marked \cup {current_key[p]}
                    /\ pc' = [pc EXCEPT ![p] = "mk_add"]
               ELSE /\ pc' = [pc EXCEPT ![p] = "loop"]
                    /\ UNCHANGED <<key, marked>>
    /\ UNCHANGED <<shared, caller, max_retries, attempt, current_key, tmp, elem, ret,
                   calls, oks, failed0, lastop, nsends, lastok>>

\* send_message has returned or raised; the thread serves no request.
Return(p) ==
    /\ pc[p] = "done"
    /\ pc' = [pc EXCEPT ![p] = "idle"]
    /\ caller' = [caller EXCEPT ![p] = "send"]
    /\ max_retries' = [max_retries EXCEPT ![p] = 0]
    /\ attempt' = [attempt EXCEPT ![p] = 0]
    /\ current_key' = [current_key EXCEPT ![p] = None]
    /\ key' = [key EXCEPT ![p] = None]
    /\ tmp' = [tmp EXCEPT ![p] = 0]
    /\ elem' = [elem EXCEPT ![p] = None]
    /\ ret' = [ret EXCEPT ![p] = None]
    /\ response' = [response EXCEPT ![p] = NoResponse]
    /\ outcome' = [outcome EXCEPT ![p] = "none"]
    /\ calls' = [calls EXCEPT ![p] = <<>>]
    /\ oks' = [oks EXCEPT ![p] = <<>>]
    /\ failed0' = [failed0 EXCEPT ![p] = {}]
    /\ lastop' = [lastop EXCEPT ![p] = "none"]
    /\ lastok' = IF outcome[p] = "success" THEN current_key[p] ELSE lastok
    /\ UNCHANGED <<shared, marked, nsends>>

(* -------------------------- get_current_key ---------------------------- *)
\* lines 19-20: if not self.api_keys: return None
GkEmpty(p) ==
    /\ pc[p] = "gk_empty"
    /\ IF api_keys = <<>>
       THEN GkReturn(p, None)
       ELSE /\ pc' = [pc EXCEPT ![p] = "gk_w1"]
            /\ UNCHANGED <<current_key, ret, lastop, outcome>>
    /\ UNCHANGED <<shared, caller, max_retries, attempt, key, tmp, elem,
                   response, calls, oks, failed0, marked, nsends, lastok>>

\* line 23: self.current_key_index < len(self.api_keys)
GkWhileBound(p) ==
    /\ pc[p] = "gk_w1"
    /\ pc' = [pc EXCEPT ![p] =
                IF current_key_index < Len(api_keys) THEN "gk_w2" ELSE "gk_if"]
    /\ UNCHANGED <<shared, caller, locals, outcome, hist>>

\* line 24: self.api_keys[self.current_key_index], the index read anew.
GkWhileLoad(p) ==
    /\ pc[p] = "gk_w2"
    /\ IF current_key_index < Len(api_keys)
       THEN /\ elem' = [elem EXCEPT ![p] = api_keys[current_key_index + 1]]
            /\ pc' = [pc EXCEPT ![p] = "gk_w3"]
            /\ UNCHANGED outcome
       ELSE /\ Raise(p, "IndexError")
            /\ UNCHANGED elem
    /\ UNCHANGED <<shared, caller, max_retries, attempt, current_key, key, tmp, ret,
                   response, hist>>

\* Mutant: the membership test is dropped, the key at the cursor is handed out.
GkWhileFailed_NoCheck(p) ==
    /\ pc[p] = "gk_w3"
    /\ pc' = [pc EXCEPT ![p] = "gk_if"]
    /\ elem' = [elem EXCEPT ![p] = None]
    /\ UNCHANGED <<shared, caller, max_retries, attempt, current_key, key, tmp, ret,
                   response, outcome, hist>>

\* line 24: ... in self.failed_keys
GkWhileFailed(p) ==
    /\ pc[p] = "gk_w3"
    /\ pc' = [pc EXCEPT ![p] = IF elem[p] \in failed_keys THEN "gk_inc1" ELSE "gk_if"]
    /\ elem' = [elem EXCEPT ![p] = None]
    /\ UNCHANGED <<shared, caller, max_retries, attempt, current_key, key, tmp, ret,
                   response, outcome, hist>>

\* line 25: self.current_key_index += 1, the read
GkIncRead(p) ==
    /\ pc[p] = "gk_inc1"
    /\ tmp' = [tmp EXCEPT ![p] = current_key_index]
    /\ pc' = [pc EXCEPT ![p] = "gk_inc2"]
    /\ UNCHANGED <<shared, caller, max_retries, attempt, current_key, key, elem, ret,
                   response, outcome, hist>>

\* line 25: self.current_key_index += 1, the write
GkIncWrite(p) ==
    /\ pc[p] = "gk_inc2"
    /\ current_key_index' = tmp[p] + 1
    /\ tmp' = [tmp EXCEPT ![p] = 0]
    /\ pc' = [pc EXCEPT ![p] = "gk_w1"]
    /\ UNCHANGED <<api_keys, failed_keys, caller, max_retries, attempt, current_key,
                   key, elem, ret, response, outcome, hist>>

\* lines 27-28: if self.current_key_index >= len(self.api_keys): return None
GkIf(p) ==
    /\ pc[p] = "gk_if"
    /\ IF current_key_index >= Len(api_keys)
       THEN GkReturn(p, None)
       ELSE /\ pc' = [pc EXCEPT ![p] = "gk_ret"]
            /\ UNCHANGED <<current_key, ret, lastop, outcome>>
    /\ UNCHANGED <<shared, caller, max_retries, attempt, key, tmp, elem,
                   response, calls, oks, failed0, marked, nsends, lastok>>

\* line 30: return self.api_keys[self.current_key_index], the index read anew.
GkRet(p) ==
    /\ pc[p] = "gk_ret"
    /\ IF current_key_index < Len(api_keys)
       THEN GkReturn(p, api_keys[current_key_index + 1])
       ELSE /\ Raise(p, "IndexError")
            /\ UNCHANGED <<current_key, ret, lastop>>
    /\ UNCHANGED <<shared, caller, max_retries, attempt, key, tmp, elem,
                   response, calls, oks, failed0, marked, nsends, lastok>>

(* -------------------------- mark_key_failed ---------------------------- *)
\* Mutant: the key is not recorded, only the cursor moves.
MkAdd_NoAdd(p) ==
    /\ pc[p] = "mk_add"
    /\ pc' = [pc EXCEPT ![p] = "mk_if1"]
    /\ lastok' = None
    /\ UNCHANGED <<shared, caller, locals, outcome, calls, oks, failed0, marked,
                   lastop, nsends>>

\* Mutant: marking a key that is already failed takes it out again.
MkAdd_Toggle(p) ==
    /\ pc[p] = "mk_add"
    /\ failed_keys' = IF key[p] \in failed_keys THEN failed_keys \ {key[p]}
                                                ELSE failed_keys \cup {key[p]}
    /\ pc' = [pc EXCEPT ![p] = "mk_if1"]
    /\ lastok' = None
    /\ UNCHANGED <<api_keys, current_key_index, caller, locals, outcome, calls, oks,
                   failed0, marked, lastop, nsends>>

\* line 34: self.failed_keys.add(key)
MkAdd(p) ==
    /\ pc[p] = "mk_add"
    /\ failed_keys' = failed_keys \cup {key[p]}
    /\ pc' = [pc EXCEPT ![p] = "mk_if1"]
    /\ lastok' = None
    /\ UNCHANGED <<api_keys, current_key_index, caller, locals, outcome, calls, oks,
                   failed0, marked, lastop, nsends>>

\* line 37: self.current_key_index < len(self.api_keys)
MkIfBound(p) ==
    /\ pc[p] = "mk_if1"
    /\ IF current_key_index < Len(api_keys)
       THEN /\ pc' = [pc EXCEPT ![p] = "mk_if2"]
            /\ UNCHANGED lastop
       ELSE MkReturn(p)
    /\ UNCHANGED <<shared, caller, locals, outcome, calls, oks, failed0, marked, nsends, lastok>>

\* Mutant: the cursor moves whichever key was marked.
MkIfKey_AlwaysAdvance(p) ==
    /\ pc[p] = "mk_if2"
    /\ IF current_key_index < Len(api_keys)
       THEN /\ pc' = [pc EXCEPT ![p] = "mk_inc1"]
            /\ UNCHANGED <<lastop, outcome>>
       ELSE /\ Raise(p, "IndexError")
            /\ UNCHANGED lastop
    /\ UNCHANGED <<shared, caller, locals, calls, oks, failed0, marked, nsends, lastok>>

\* line 38: self.api_keys[self.current_key_index] == key, the index read anew.
MkIfKey(p) ==
    /\ pc[p] = "mk_if2"
    /\ IF current_key_index < Len(api_keys)
       THEN /\ IF api_keys[current_key_index + 1] = key[p]
               THEN /\ pc' = [pc EXCEPT ![p] = "mk_inc1"]
                    /\ UNCHANGED lastop
               ELSE MkReturn(p)
            /\ UNCHANGED outcome
       ELSE /\ Raise(p, "IndexError")
            /\ UNCHANGED lastop
    /\ UNCHANGED <<shared, caller, locals, calls, oks, failed0, marked, nsends, lastok>>

\* line 39: self.current_key_index += 1, the read
MkIncRead(p) ==
    /\ pc[p] = "mk_inc1"
    /\ tmp' = [tmp EXCEPT ![p] = current_key_index]
    /\ pc' = [pc EXCEPT ![p] = "mk_inc2"]
    /\ UNCHANGED <<shared, caller, max_retries, attempt, current_key, key, elem, ret,
                   response, outcome, hist>>

\* Mutant: the cursor moves by two.
MkIncWrite_Skips(p) ==
    /\ pc[p] = "mk_inc2"
    /\ current_key_index' = tmp[p] + 2
    /\ tmp' = [tmp EXCEPT ![p] = 0]
    /\ MkReturn(p)
    /\ UNCHANGED <<api_keys, failed_keys, caller, max_retries, attempt, current_key,
                   key, elem, ret, response, outcome, calls, oks, failed0, marked, nsends, lastok>>

\* line 39: self.current_key_index += 1, the write
MkIncWrite(p) ==
    /\ pc[p] = "mk_inc2"
    /\ current_key_index' = tmp[p] + 1
    /\ tmp' = [tmp EXCEPT ![p] = 0]
    /\ MkReturn(p)
    /\ UNCHANGED <<api_keys, failed_keys, caller, max_retries, attempt, current_key,
                   key, elem, ret, response, outcome, calls, oks, failed0, marked, nsends, lastok>>

(* ------------------- direct calls of the key manager ------------------- *)
\* key_manager.get_current_key() called outside send_message.
DirectGet(p) ==
    /\ pc[p] = "idle"
    /\ caller' = [caller EXCEPT ![p] = "direct"]
    /\ lastop' = [lastop EXCEPT ![p] = "none"]
    /\ failed0' = [failed0 EXCEPT ![p] = failed_keys]
    /\ ret' = [ret EXCEPT ![p] = None]
    /\ key' = [key EXCEPT ![p] = None]
    /\ pc' = [pc EXCEPT ![p] = "gk_empty"]
    /\ UNCHANGED <<shared, max_retries, attempt, current_key, tmp, elem, response,
                   outcome, calls, oks, marked, nsends, lastok>>

\* key_manager.mark_key_failed(c) called outside send_message.
DirectMark(p, c) ==
    /\ pc[p] = "idle"
    /\ caller' = [caller EXCEPT ![p] = "direct"]
    /\ lastop' = [lastop EXCEPT ![p] = "none"]
    /\ failed0' = [failed0 EXCEPT ![p] = failed_keys]
    /\ ret' = [ret EXCEPT ![p] = None]
    /\ key' = [key EXCEPT ![p] = c]
    /\ marked' = marked \cup {c}
    /\ pc' = [pc EXCEPT ![p] = "mk_add"]
    /\ UNCHANGED <<shared, max_retries, attempt, current_key, tmp, elem, response,
                   outcome, calls, oks, nsends, lastok>>

(* --------------------------- specifications ---------------------------- *)
Step(p) ==
    \/ Send(p) \/ Loop(p) \/ SCheck(p) \/ Post(p) \/ Respond(p) \/ Classify(p)
    \/ Return(p)
    \/ GkEmpty(p) \/ GkWhileBound(p) \/ GkWhileLoad(p) \/ GkWhileFailed(p)
    \/ GkIncRead(p) \/ GkIncWrite(p) \/ GkIf(p) \/ GkRet(p)
    \/ MkAdd(p) \/ MkIfBound(p) \/ MkIfKey(p) \/ MkIncRead(p) \/ MkIncWrite(p)

\* Threads of the front end, each serving send_message, sharing one key manager.
Next == \E p \in Procs : Step(p)

Spec == Init /\ [][Next]_vars

\* One caller: sends and direct calls of the key manager, one after the other.
NextSeq ==
    \/ Step(1)
    \/ DirectGet(1)
    \/ \E c \in Keys : DirectMark(1, c)

SpecSeq == Init /\ [][NextSeq]_vars

\* What a thread that has entered send_message does next: every step but the
\* arrival of a new request. requests.post has timeout=30, so Respond is among them.
Run(p) ==
    \/ Loop(p) \/ SCheck(p) \/ Post(p) \/ Respond(p) \/ Classify(p) \/ Return(p)
    \/ GkEmpty(p) \/ GkWhileBound(p) \/ GkWhileLoad(p) \/ GkWhileFailed(p)
    \/ GkIncRead(p) \/ GkIncWrite(p) \/ GkIf(p) \/ GkRet(p)
    \/ MkAdd(p) \/ MkIfBound(p) \/ MkIfKey(p) \/ MkIncRead(p) \/ MkIncWrite(p)

\* The threads of the front end under a fair scheduler: a thread that can go on
\* is not left waiting for ever.
SpecFair == Spec /\ \A p \in Procs : WF_vars(Run(p))

(* ------------------------------ claims --------------------------------- *)
AllDistinct(s) == \A i, j \in DOMAIN s : i # j => s[i] # s[j]

\* A pool of distinct credentials: no value twice, no empty entry.
DistinctCredentials(s) == AllDistinct(s) /\ "" \notin Range(s)

IsPrefix(a, b) == Len(a) <= Len(b) /\ \A i \in 1..Len(a) : a[i] = b[i]

\* The keys of the pool that were usable when p's send read its budget, in pool order.
Usable0(p) == SelectSeq(api_keys, LAMBDA k : k \notin failed0[p])

InSend(p) == caller[p] = "send" /\ pc[p] # "idle"

Terminal == {"success", "NoAvailable", "AllExhausted"}

\* C1 (SpecSeq): a single send on a pool of distinct credentials calls the usable
\* keys in pool order, starting at the first one not failed; only its last call can
\* have answered 200, and then the send returns success, with failed_keys grown by
\* exactly the keys called before the successful one.
C1_OrderedAttempts ==
    \A p \in Procs :
        (InSend(p) /\ DistinctCredentials(api_keys)) =>
            /\ IsPrefix(calls[p], Usable0(p))
            /\ \A i \in 1..Len(oks[p]) : oks[p][i] => i = Len(calls[p])
            /\ (pc[p] = "done" /\ \E i \in 1..Len(oks[p]) : oks[p][i])
                   => outcome[p] = "success"
            /\ outcome[p] = "success" =>
                   /\ calls[p] # <<>>
                   /\ oks[p][Len(calls[p])]
                   /\ failed_keys =
                        failed0[p] \cup {calls[p][i] : i \in 1..(Len(calls[p]) - 1)}

\* Witness of C1: pool [A,B,C], A and B answered with a failure, C with 200.
C1_Witness ==
    \E p \in Procs :
        /\ api_keys = <<"A", "B", "C">>
        /\ failed0[p] = {}
        /\ pc[p] = "done" /\ outcome[p] = "success"
        /\ calls[p] = <<"A", "B", "C">>
        /\ oks[p] = <<FALSE, FALSE, TRUE>>
        /\ get_available_keys_count = 1

\* C2 (SpecSeq): a single send on a pool of N distinct credentials, none failed at
\* the start, whose calls all fail, ends with AllExhausted after exactly one call per
\* credential, and no key is available afterwards.
C2_AllFailExhausts ==
    \A p \in Procs :
        ( /\ InSend(p) /\ pc[p] = "done"
          /\ DistinctCredentials(api_keys)
          /\ failed0[p] \cap Range(api_keys) = {}
          /\ \A i \in 1..Len(oks[p]) : ~oks[p][i] ) =>
            /\ outcome[p] = "AllExhausted"
            /\ calls[p] = api_keys
            /\ get_available_keys_count = 0

\* Witness of C2: pool [A,B], both calls failed.
C2_Witness ==
    \E p \in Procs :
        /\ api_keys = <<"A", "B">>
        /\ failed0[p] = {}
        /\ pc[p] = "done" /\ outcome[p] = "AllExhausted"
        /\ calls[p] = <<"A", "B">>
        /\ oks[p] = <<FALSE, FALSE>>

\* No key of the pool was usable when p's send read its budget.
NoneUsableAtStart(p) == CountAvailable(api_keys, failed0[p]) = 0

C4_CandidateNotFailed ==
    \A p \in Procs :
        /\ (lastop[p] = "get" /\ ret[p] # None) =>
               ret[p] \notin failed_keys /\ ret[p] \notin marked
        /\ (InSend(p) /\ pc[p] = "s_check" /\ current_key[p] # None) =>
               current_key[p] \notin failed_keys

\* Witness of C4: a key is handed out after keys before it were marked failed.
C4_Witness ==
    \E p \in Procs :
        /\ lastop[p] = "get" /\ ret[p] # None
        /\ marked \cap Range(api_keys) # {}
        /\ current_key_index > 0

\* C5 (SpecSeq): on a pool of N distinct keys on which only members are marked,
\* get_available_keys_count is N - |failed_keys|: N when nothing is marked, and
\* N - k once mark_key_failed has returned for k distinct members.
C5_CountIsComplement ==
    (AllDistinct(api_keys) /\ marked \subseteq Range(api_keys)) =>
        /\ get_available_keys_count = Len(api_keys) - Cardinality(failed_keys)
        /\ marked = {} => get_available_keys_count = Len(api_keys)
        /\ (\A p \in Procs : pc[p] = "idle") =>
               get_available_keys_count = Len(api_keys) - Cardinality(marked)

\* Witness of C5: two of three distinct keys marked, out of pool order.
C5_Witness ==
    /\ Len(api_keys) = 3 /\ AllDistinct(api_keys)
    /\ marked = {api_keys[3], api_keys[1]}
    /\ current_key_index = 1
    /\ \A p \in Procs : pc[p] = "idle"
    /\ get_available_keys_count = 1

\* C6 (SpecSeq): mark_key_failed(c) for a key c already in failed_keys leaves
\* failed_keys and get_available_keys_count as they were when it was called.
C6_MarkIdempotent ==
    \A p \in Procs :
        (lastop[p] = "mark" /\ key[p] \in failed0[p]) =>
            /\ failed_keys = failed0[p]
            /\ get_available_keys_count = CountAvailable(api_keys, failed0[p])

\* Witness of C6: a second mark_key_failed of a pool member has returned.
C6_Witness ==
    \E p \in Procs :
        /\ lastop[p] = "mark"
        /\ key[p] \in failed0[p]
        /\ key[p] \in Range(api_keys)

\* C7 (Spec): a send makes at most as many calls as the budget it read at its start,
\* and that budget stays the count of keys usable at that moment whatever is marked
\* failed afterwards.
C7_BudgetBoundsCalls ==
    \A p \in Procs :
        InSend(p) =>
            /\ Len(calls[p]) <= max_retries[p]
            /\ max_retries[p] = CountAvailable(api_keys, failed0[p])

\* Witness of C7: a send that read a budget of 3 has ended, and a key it never
\* called was marked failed by another send after the budget was read.
C7_Witness ==
    \E p \in Procs :
        /\ InSend(p) /\ pc[p] = "done"
        /\ failed0[p] = {}
        /\ max_retries[p] = 3
        /\ calls[p] # <<>>
        /\ \E k \in failed_keys : k \notin Range(calls[p])

\* C8 as stated (Spec): from one state to the next the cursor never decreases and
\* failed_keys never loses a key.
C8_Monotone ==
    [][current_key_index' >= current_key_index /\ failed_keys \subseteq failed_keys']_vars

\* C9 as stated (Spec): every key at an index below the cursor is in failed_keys,
\* and no call of the key manager reads past the end of api_keys.
C9_CursorSafe ==
    /\ \A i \in DOMAIN api_keys : i <= current_key_index => api_keys[i] \in failed_keys
    /\ \A p \in Procs : outcome[p] # "IndexError"

\* C10 as stated (Spec): a send ends with a success payload, NoAvailable or
\* AllExhausted, nothing else.
C10_ThreeOutcomes ==
    \A p \in Procs : (InSend(p) /\ pc[p] = "done") => outcome[p] \in Terminal

\* C11 as stated (Spec): when a send issues an HTTP call with key c, c is not in
\* failed_keys at that moment.
C11_CallWithValidKey ==
    [][\A p \in Procs :
          (pc[p] = "post" /\ pc'[p] = "wait") => current_key[p] \notin failed_keys]_vars

\* C12 as stated: the pool holds no empty and no missing entry, and a send never
\* takes an entry of the pool for "no candidate".
C12_PoolFiltered ==
    /\ "" \notin Range(api_keys)
    /\ None \notin Range(api_keys)
    /\ \A p \in Procs :
          (InSend(p) /\ pc[p] = "done" /\ outcome[p] = "NoAvailable") =>
              current_key[p] = None

\* The calls of p's send that have been answered, classified and, if they failed,
\* handed to mark_key_failed, which has added the key.
Settled(p) ==
    {i \in 1..Len(oks[p]) : i < Len(oks[p]) \/ pc[p] \notin {"classify", "mk_add"}}

C14_SuccessKeepsKey ==
    /\ [][\A p \in Procs :
            (pc'[p] = "done" /\ outcome'[p] = "success") =>
                /\ failed_keys' = failed_keys
                /\ current_key_index' = current_key_index
                /\ current_key'[p] \notin failed_keys']_vars
    /\ [](\A p \in Procs :
            (InSend(p) /\ lastok # None /\ calls[p] # <<>>) => calls[p][1] = lastok)

\* Witness of C14: a send whose second key answered 200 was followed by a send
\* whose first call uses that key.
C14_Witness ==
    \E p \in Procs :
        /\ InSend(p) /\ lastok # None
        /\ calls[p] = <<lastok>>
        /\ Len(api_keys) >= 2
        /\ api_keys[2] = lastok
        /\ api_keys[1] \in failed_keys

\* Reference: scan from index 0, the first key that is not failed, None if there is
\* none.
RefScan(keys, failed) ==
    IF \E i \in DOMAIN keys : keys[i] \notin failed
    THEN keys[CHOOSE i \in DOMAIN keys :
                 /\ keys[i] \notin failed
                 /\ \A j \in 1..(i - 1) : keys[j] \in failed]
    ELSE None

\* C15 (SpecSeq): after any sequence of mark_key_failed calls (any key, any order)
\* and get_current_key calls made one after the other, get_current_key returns what
\* the scan from index 0 returns, and None exactly when every key is failed.
C15_CursorIsOptimization ==
    \A p \in Procs :
        /\ lastop[p] = "get" =>
               /\ ret[p] = RefScan(api_keys, failed_keys)
               /\ ret[p] = None <=> Range(api_keys) \subseteq failed_keys
        /\ (InSend(p) /\ pc[p] = "s_check") =>
               current_key[p] = RefScan(api_keys, failed_keys)

\* Witness of C15: a key that is not at the cursor was marked, the first is returned.
C15_Witness ==
    \E p \in Procs :
        /\ lastop[p] = "get"
        /\ Len(api_keys) = 3 /\ AllDistinct(api_keys)
        /\ failed_keys = {api_keys[1], api_keys[3]}
        /\ ret[p] = api_keys[2]

\* C16 as stated (Spec): when a send on a pool of distinct credentials ends with
\* AllExhausted, every key that was usable when it read its budget was called by
\* that send and is in failed_keys.
C16_ExhaustedTriedAll ==
    \A p \in Procs :
        ( /\ InSend(p) /\ pc[p] = "done" /\ outcome[p] = "AllExhausted"
          /\ DistinctCredentials(api_keys) ) =>
            \A k \in Range(api_keys) \ failed0[p] :
                k \in Range(calls[p]) /\ k \in failed_keys

\* C17 as stated (Spec): when a send ends with NoAvailable, no key of the pool is
\* usable: every key is in failed_keys and get_available_keys_count is 0.
C17_NoAvailableMeansNone ==
    \A p \in Procs :
        (InSend(p) /\ pc[p] = "done" /\ outcome[p] = "NoAvailable") =>
            /\ get_available_keys_count = 0
            /\ Range(api_keys) \subseteq failed_keys

\* The positions of the pool get_current_key can still hand out: at or after the
\* cursor, holding a key that is not failed.
Obtainable ==
    {i \in DOMAIN api_keys : i > current_key_index /\ api_keys[i] \notin failed_keys}

Pos(k) == CHOOSE i \in DOMAIN api_keys : api_keys[i] = k

\* C20 as stated (Spec): the calls of one send on a pool of distinct credentials go
\* out with keys at strictly increasing positions of the pool, so with no key twice.
C20_NoKeyTwice ==
    \A p \in Procs :
        (InSend(p) /\ DistinctCredentials(api_keys)) =>
            \A i, j \in DOMAIN calls[p] :
                i < j => Pos(calls[p][i]) < Pos(calls[p][j])

\* The state of the per-call state machine a thread is in.
Phase(p) ==
    CASE pc[p] \in {"loop", "gk_empty", "gk_w1", "gk_w2", "gk_w3", "gk_inc1", "gk_inc2",
                    "gk_if", "gk_ret", "s_check"}                -> "Selecting"
      [] pc[p] \in {"post", "wait", "classify"}                   -> "Calling"
      [] pc[p] \in {"mk_add", "mk_if1", "mk_if2", "mk_inc1", "mk_inc2"} -> "Retrying"
      [] pc[p] = "done" /\ outcome[p] = "success"                 -> "Success"
      [] pc[p] = "done" /\ outcome[p] = "AllExhausted"            -> "Exhausted"
      [] pc[p] = "done" /\ outcome[p] = "NoAvailable"             -> "NoCandidate"
      [] pc[p] = "done" /\ outcome[p] \notin Terminal             -> "Raised"
      [] OTHER                                                    -> "Idle"

\* The transitions of the state machine. NoCandidate and Exhausted are entered
\* from the selection (lines 69-70, and the end of the for loop), which is where
\* the code decides them; the edges from Calling are admitted as well.
Transitions ==
    {<<"Selecting", "Calling">>, <<"Calling", "Success">>, <<"Calling", "Retrying">>,
     <<"Retrying", "Selecting">>,
     <<"Selecting", "NoCandidate">>, <<"Selecting", "Exhausted">>,
     <<"Calling", "NoCandidate">>, <<"Calling", "Exhausted">>}

\* The state of the machine of p after the step.
PhaseNext(p) ==
    CASE pc'[p] \in {"loop", "gk_empty", "gk_w1", "gk_w2", "gk_w3", "gk_inc1", "gk_inc2",
                     "gk_if", "gk_ret", "s_check"}                -> "Selecting"
      [] pc'[p] \in {"post", "wait", "classify"}                   -> "Calling"
      [] pc'[p] \in {"mk_add", "mk_if1", "mk_if2", "mk_inc1", "mk_inc2"} -> "Retrying"
      [] pc'[p] = "done" /\ outcome'[p] = "success"                 -> "Success"
      [] pc'[p] = "done" /\ outcome'[p] = "AllExhausted"            -> "Exhausted"
      [] pc'[p] = "done" /\ outcome'[p] = "NoAvailable"             -> "NoCandidate"
      [] pc'[p] = "done" /\ outcome'[p] \notin Terminal             -> "Raised"
      [] OTHER                                                      -> "Idle"

\* Every step of a send stays in its state or follows a transition.
C18_Machine ==
    [][\A p \in Procs :
          (InSend(p) /\ pc'[p] # "idle") =>
              \/ PhaseNext(p) = Phase(p)
              \/ <<Phase(p), PhaseNext(p)>> \in Transitions]_vars

\* Every send ends.
C18_Ends == \A p \in Procs : InSend(p) ~> (pc[p] = "done")

\* C18 as stated (SpecFair): with every upstream call answered and the threads
\* scheduled fairly, every send reaches Success, Exhausted or NoCandidate, and each
\* of its steps follows the transitions of the state machine.
C18_SendTerminates ==
    /\ \A p \in Procs : InSend(p) ~> (pc[p] = "done" /\ outcome[p] \in Terminal)
    /\ C18_Machine

=============================================================================
